---- MODULE Spec2Model ----
(***************************************************************************)
(* Model of the logging facade of sim: the log sanitizer                   *)
(* (lib/logs/sanitizer), the console Logger (lib/logs/console/logger) and  *)
(* the StructuredLogger (lib/logs/structured/logger).                      *)
(*                                                                         *)
(* A JavaScript string is a sequence of one-character strings, so that the *)
(* regular expressions of SENSITIVE_PATTERNS are matched character by      *)
(* character and a RegExp's lastIndex is a position in the text.           *)
(***************************************************************************)
EXTENDS Integers, Sequences, FiniteSets, TLC

VARIABLES
    lastIndex,      \* SENSITIVE_PATTERNS[k].pattern.lastIndex, k \in 1..6
    lastCall,       \* the last sanitizer utility call: function, input, result
    calls,          \* the number of calls made on loggers so far
    NODE_ENV,       \* process.env.NODE_ENV
    isServerSide,   \* typeof window === 'undefined'
    loggers,        \* the logger instances constructed so far
    stdout,         \* what console.log was called with
    stderr,         \* what console.error was called with
    stream,         \* the records pino wrote
    listeners       \* process.on registrations per event

vars == <<lastIndex, lastCall, calls, NODE_ENV, isServerSide, loggers,
          stdout, stderr, stream, listeners>>

-----------------------------------------------------------------------------
(* Bounds of the model.                                                    *)

MaxCalls == 1
MaxLoggers == 2

-----------------------------------------------------------------------------
(* Characters and character classes.                                       *)

UpperSeq == <<"A","B","C","D","E","F","G","H","I","J","K","L","M","N","O","P","Q","R","S","T","U","V","W","X","Y","Z">>
LowerSeq == <<"a","b","c","d","e","f","g","h","i","j","k","l","m","n","o","p","q","r","s","t","u","v","w","x","y","z">>
Upper == {UpperSeq[i] : i \in 1..26}
Lower == {LowerSeq[i] : i \in 1..26}
Digit == {"0","1","2","3","4","5","6","7","8","9"}
Alnum == Upper \cup Lower \cup Digit
\* [A-Za-z0-9._-]
TokenChar == Alnum \cup {".", "_", "-"}
\* [A-Za-z0-9_-]
JwtChar == Alnum \cup {"_", "-"}
\* \w
WordChar == Alnum \cup {"_"}
\* \s
Space == {" ", "\t", "\n"}
Quote == {"\"", "'"}

ToLower(c) == IF c \in Upper THEN LowerSeq[CHOOSE i \in 1..26 : UpperSeq[i] = c] ELSE c

Rep(c, n) == [i \in 1..n |-> c]

-----------------------------------------------------------------------------
(* Regular expression matching.  Positions are 1-based.  Every piece of a  *)
(* pattern takes the position p where it starts and gives the position     *)
(* after what it matched, 0 meaning no match; a piece started at 0 fails,  *)
(* so the pieces of a pattern are nested in the order they are written.    *)
(* None of the patterns needs backtracking: each repetition excludes the   *)
(* character that has to follow it.                                        *)

\* lit occurs in s at position p (ci: ignoring case, the i flag)
LitAt(s, p, lit, ci) ==
    /\ p >= 1
    /\ p + Len(lit) - 1 <= Len(s)
    /\ \A i \in 1..Len(lit) :
          IF ci THEN ToLower(s[p + i - 1]) = ToLower(lit[i]) ELSE s[p + i - 1] = lit[i]

\* the least element of the set of positions S, or none when S is empty
MinOr(S, none) == IF S = {} THEN none ELSE CHOOSE q \in S : \A r \in S : q <= r

\* greedy C*: the position after the longest run of characters of C from p
RunEnd(s, p, C) == MinOr({q \in p..Len(s) : s[q] \notin C}, Len(s) + 1)

\* greedy [^X]*: the position after the longest run of characters not in X
RunEndNot(s, p, X) == MinOr({q \in p..Len(s) : s[q] \in X}, Len(s) + 1)

\* a literal
Lit(s, p, lit, ci) == IF LitAt(s, p, lit, ci) THEN p + Len(lit) ELSE 0

\* a run from p to e of at least n characters
Longer(e, p, n) == IF e - p >= n THEN e ELSE 0

\* C{n,}
RunOf(s, p, C, n) == IF p = 0 THEN 0 ELSE Longer(RunEnd(s, p, C), p, n)

\* [^X]{n,}
RunOfNot(s, p, X, n) == IF p = 0 THEN 0 ELSE Longer(RunEndNot(s, p, X), p, n)

\* one character of C
OneOf(s, p, C) == IF p >= 1 /\ p <= Len(s) /\ s[p] \in C THEN p + 1 ELSE 0

\* C?
Opt(s, p, C) == IF p >= 1 /\ p <= Len(s) /\ s[p] \in C THEN p + 1 ELSE p

\* a | b, where at most one alternative matches
Alt(a, b) == IF a > 0 THEN a ELSE b

\* \b before a word character
WordStart(s, p) == IF p = 1 \/ (p > 1 /\ s[p - 1] \notin WordChar) THEN p ELSE 0

\* p when a character of C is at p
Before(s, p, C) == IF OneOf(s, p, C) > 0 THEN p ELSE 0

\* \s*[=:]\s*
AssignEnd(s, p) == RunOf(s, OneOf(s, RunOf(s, p, Space, 0), {"=", ":"}), Space, 0)

\* /Bearer\s+[A-Za-z0-9._-]+/gi
MatchBearer(s, p) ==
    RunOf(s, RunOf(s, Lit(s, p, <<"B","e","a","r","e","r">>, TRUE), Space, 1), TokenChar, 1)

\* /\bsk-[A-Za-z0-9]{20,}/g
MatchSk(s, p) == RunOf(s, Lit(s, WordStart(s, p), <<"s","k","-">>, FALSE), Alnum, 20)

\* (?:api_key|apikey|api-key)
ApiKeyName(s, p) ==
    Alt(Lit(s, p, <<"a","p","i","_","k","e","y">>, TRUE),
        Alt(Lit(s, p, <<"a","p","i","k","e","y">>, TRUE),
            Lit(s, p, <<"a","p","i","-","k","e","y">>, TRUE)))

\* /\b(?:api_key|apikey|api-key)\s*[=:]\s*["']?[A-Za-z0-9._-]{16,}["']?/gi
MatchApiKey(s, p) ==
    Opt(s, RunOf(s, Opt(s, AssignEnd(s, ApiKeyName(s, WordStart(s, p))), Quote),
                 TokenChar, 16),
        Quote)

\* /["'][^"']{2,}["']/
MatchQuoted(s, p) == OneOf(s, RunOfNot(s, OneOf(s, p, Quote), Quote, 2), Quote)

\* (?:password|secret|key)
PasswordName(s, p) ==
    Alt(Lit(s, p, <<"p","a","s","s","w","o","r","d">>, TRUE),
        Alt(Lit(s, p, <<"s","e","c","r","e","t">>, TRUE),
            Lit(s, p, <<"k","e","y">>, TRUE)))

\* /(?:password|secret|key)\s*[=:]\s*["'][^"']{2,}["']/gi
MatchPassword(s, p) == MatchQuoted(s, AssignEnd(s, PasswordName(s, p)))

\* /\beyJ[A-Za-z0-9_-]+\.[A-Za-z0-9_-]+\.[A-Za-z0-9_-]*/g
MatchJwt(s, p) ==
    RunOf(s,
          Lit(s,
              RunOf(s,
                    Lit(s,
                        RunOf(s, Lit(s, WordStart(s, p), <<"e","y","J">>, FALSE), JwtChar, 1),
                        <<".">>, FALSE),
                    JwtChar, 1),
              <<".">>, FALSE),
          JwtChar, 0)

\* group 1 of the connection-string pattern, (postgresql:\/\/[^:]+:): the
\* position after it
ConnColon(s, p) ==
    OneOf(s,
          RunOfNot(s, Lit(s, p, <<"p","o","s","t","g","r","e","s","q","l",":","/","/">>, TRUE),
                   {":"}, 1),
          {":"})

\* (postgresql:\/\/[^:]+:)[^@]+ followed by @: the position of the @, where
\* group 2 starts
ConnAt(s, p) == Before(s, RunOfNot(s, ConnColon(s, p), {"@"}, 1), {"@"})

\* /(postgresql:\/\/[^:]+:)[^@]+(@[^/]+)/gi
MatchConn(s, p) == RunOfNot(s, OneOf(s, ConnAt(s, p), {"@"}), {"/"}, 1)

\* /[A-Za-z0-9._-]{16,}/g
MatchLongToken(s, p) == RunOf(s, p, TokenChar, 16)

(* The patterns: 1..6 are SENSITIVE_PATTERNS in list order, 7 and 8 are the *)
(* inner patterns of the two replacement functions.                        *)
NPatterns == 6
LongTokenPattern == 7
QuotedPattern == 8

MatchAt(k, s, p) ==
    CASE k = 1 -> MatchBearer(s, p)
      [] k = 2 -> MatchSk(s, p)
      [] k = 3 -> MatchApiKey(s, p)
      [] k = 4 -> MatchPassword(s, p)
      [] k = 5 -> MatchJwt(s, p)
      [] k = 6 -> MatchConn(s, p)
      [] k = 7 -> MatchLongToken(s, p)
      [] k = 8 -> MatchQuoted(s, p)

description(k) ==
    CASE k = 1 -> "Bearer tokens"
      [] k = 2 -> "OpenAI/Stripe-style API keys"
      [] k = 3 -> "Generic API keys"
      [] k = 4 -> "Password/secret fields"
      [] k = 5 -> "JWT tokens"
      [] k = 6 -> "Database connection strings"

\* the leftmost position >= from where pattern k matches, or 0
FindFrom(k, s, from) == MinOr({p \in from..Len(s) : MatchAt(k, s, p) > 0}, 0)

REDACTED == <<"[","R","E","D","A","C","T","E","D","]">>

RECURSIVE ReplaceFrom(_, _, _)
RECURSIVE Replacement(_, _)

\* the replacement of the match of pattern k from p to e, and the scan on
ReplaceRest(k, s, p, e) == Replacement(k, SubSeq(s, p, e - 1)) \o ReplaceFrom(k, s, e)

\* the text from `from` on, with the matches of pattern k from p on replaced
ReplaceMatch(k, s, from, p) ==
    IF p = 0 THEN SubSeq(s, from, Len(s))
    ELSE SubSeq(s, from, p - 1) \o ReplaceRest(k, s, p, MatchAt(k, s, p))

\* String.prototype.replace with the global pattern k, scanning from `from`
ReplaceFrom(k, s, from) == ReplaceMatch(k, s, from, FindFrom(k, s, from))

\* s with the match of pattern k at p, if any, replaced by new
ReplaceAt(k, s, new, p) ==
    IF p = 0 THEN s
    ELSE SubSeq(s, 1, p - 1) \o new \o SubSeq(s, MatchAt(k, s, p), Len(s))

\* String.prototype.replace with a pattern without the g flag: first match only
ReplaceFirst(k, s, new) == ReplaceAt(k, s, new, FindFrom(k, s, 1))

\* what a match m of pattern k is replaced by
Replacement(k, m) ==
    CASE k = 1 -> <<"B","e","a","r","e","r"," ">> \o REDACTED
      [] k = 2 -> <<"s","k","-">> \o REDACTED
      [] k = 3 -> ReplaceFrom(LongTokenPattern, m, 1)
      [] k = 4 -> ReplaceFirst(QuotedPattern, m, <<"\"">> \o REDACTED \o <<"\"">>)
      [] k = 5 -> <<"e","y","J","[","R","E","D","A","C","T","E","D","_","J","W","T","]">>
      [] k = 6 -> SubSeq(m, 1, ConnColon(m, 1) - 1) \o REDACTED \o SubSeq(m, ConnAt(m, 1), Len(m))
      [] k = 7 -> REDACTED

\* result.replace(pattern, replacement) scanning on from the pattern's
\* lastIndex, as pattern.test and pattern.exec do
StringReplaceFromLastIndex(s, k) ==
    IF lastIndex[k] > Len(s) THEN s
    ELSE SubSeq(s, 1, lastIndex[k]) \o ReplaceFrom(k, s, lastIndex[k] + 1)

\* result.replace(pattern, replacement): a global pattern is scanned from
\* the start whatever its lastIndex was
StringReplace(s, k) == ReplaceFrom(k, s, 1)

\* the loop over SENSITIVE_PATTERNS run from the last pattern back to pattern k
RECURSIVE ApplyPatternsBackwards(_, _)
ApplyPatternsBackwards(result, k) ==
    IF k > NPatterns THEN result
    ELSE StringReplace(ApplyPatternsBackwards(result, k + 1), k)

\* the loop over SENSITIVE_PATTERNS from pattern k on
RECURSIVE ApplyPatterns(_, _)
ApplyPatterns(result, k) ==
    IF k > NPatterns \/ Len(result) = 0 THEN result
    ELSE ApplyPatterns(StringReplace(result, k), k + 1)

sanitizeString(input) == ApplyPatterns(input, 1)

\* the outcome of pattern.test(input) given the position p of the match found
TestOutcome(k, input, p) ==
    IF p = 0 THEN [found |-> FALSE, lastIndex |-> 0]
    ELSE [found |-> TRUE, lastIndex |-> MatchAt(k, input, p) - 1]

\* pattern.test(input) of a global pattern: searches from lastIndex (0-based)
\* and leaves lastIndex after the match, or at 0 when there is none
RegExpTest(k, input, li) ==
    TestOutcome(k, input, IF li > Len(input) THEN 0 ELSE FindFrom(k, input, li + 1))

-----------------------------------------------------------------------------
(* JavaScript values.  Every value is a record with a tag t.  An object is *)
(* its own enumerable entries in enumeration order; a Ref is a reference   *)
(* to an object of Heap, which is how an object can contain itself.        *)

Undefined == [t |-> "undefined"]
Null == [t |-> "null"]
Str(chars) == [t |-> "string", s |-> chars]
Num(n) == [t |-> "number", n |-> n]
Bool(b) == [t |-> "boolean", b |-> b]
Fn == [t |-> "function"]
\* new Date(...): toISOString() gives iso, or throws a RangeError when invalid
DateV(valid, iso) == [t |-> "date", valid |-> valid, iso |-> iso]
\* an Error: props are its own properties other than name, message and stack
ErrorV(name, message, stack, props) ==
    [t |-> "error", name |-> name, message |-> message, stack |-> stack, props |-> props]
Arr(items) == [t |-> "array", items |-> items]
Obj(entries) == [t |-> "object", entries |-> entries]
\* Object.create(null): an object with no entries, no toString and no valueOf
BareObject == [t |-> "bareobject"]
\* a property whose getter throws the value thrown
ThrowingGetter(thrown) == [t |-> "getter", thrown |-> thrown]
Ref(id) == [t |-> "ref", id |-> id]
Entry(k, v) == [k |-> k, v |-> v]

\* the outcome of an evaluation that threw error
Throw(error) == [t |-> "throw", error |-> error]
IsThrow(r) == r.t = "throw"

Heap ==
    <<
      \* o = { a: 'Bearer abc123' }; o.self = o
      Obj(<< Entry("a", Str(<<"B","e","a","r","e","r"," ","a","b","c","1","2","3">>)),
             Entry("self", Ref(1)) >>),
      \* p = { n: 1, q: { back: p } }
      Obj(<< Entry("n", Num(1)), Entry("q", Ref(3)) >>),
      Obj(<< Entry("back", Ref(2)) >>),
      \* a = [1]; a.push(a)
      Arr(<< Num(1), Ref(4) >>)
    >>

Deref(v) == IF v.t = "ref" THEN Heap[v.id] ELSE v

TypeOf(v) ==
    LET o == Deref(v)
    IN  CASE o.t \in {"string", "number", "boolean", "undefined", "function"} -> o.t
          [] OTHER -> "object"

StrOf(tlaString) ==
    CASE tlaString = "string" -> <<"s","t","r","i","n","g">>
      [] tlaString = "number" -> <<"n","u","m","b","e","r">>
      [] tlaString = "boolean" -> <<"b","o","o","l","e","a","n">>
      [] tlaString = "undefined" -> <<"u","n","d","e","f","i","n","e","d">>
      [] tlaString = "function" -> <<"f","u","n","c","t","i","o","n">>
      [] tlaString = "object" -> <<"o","b","j","e","c","t">>

MAX_DEPTH_REACHED == <<"[","M","A","X","_","D","E","P","T","H","_","R","E","A","C","H","E","D","]">>
CIRCULAR_REFERENCE == <<"[","C","I","R","C","U","L","A","R","_","R","E","F","E","R","E","N","C","E","]">>
InvalidTimeValue == <<"I","n","v","a","l","i","d"," ","t","i","m","e"," ","v","a","l","u","e">>
CannotConvert == <<"C","a","n","n","o","t"," ","c","o","n","v","e","r","t"," ","o","b","j","e","c","t"," ","t","o"," ","p","r","i","m","i","t","i","v","e"," ","v","a","l","u","e">>
RangeErrorName == <<"R","a","n","g","e","E","r","r","o","r">>
TypeErrorName == <<"T","y","p","e","E","r","r","o","r">>

\* obj[k] = v on the entries of an object
SetEntry(entries, k, v) ==
    IF \E i \in 1..Len(entries) : entries[i].k = k
    THEN [i \in 1..Len(entries) |-> IF entries[i].k = k THEN Entry(k, v) ELSE entries[i]]
    ELSE Append(entries, Entry(k, v))

\* { ...target, ...source } on the entries of two objects
RECURSIVE SpreadEntries(_, _)
SpreadEntries(target, source) ==
    IF source = <<>> THEN target
    ELSE SpreadEntries(SetEntry(target, Head(source).k, Head(source).v), Tail(source))

\* { ...target, ...value }: a string spreads into its characters under the
\* keys "0", "1", ..., which an object enumerates before its other keys;
\* null, undefined, numbers and booleans spread into nothing
SpreadValue(target, value) ==
    CASE value.t = "object" -> SpreadEntries(target, value.entries)
      [] value.t = "string" ->
            [i \in 1..Len(value.s) |-> Entry(ToString(i - 1), Str(<<value.s[i]>>))] \o target
      [] OTHER -> target

DefaultMaxDepth == 10

\* the first getter of the entries that throws, as Object.entries meets it
FirstThrowingGetter(entries) ==
    LET bad == {i \in 1..Len(entries) : entries[i].v.t = "getter"}
    IN  IF bad = {} THEN 0 ELSE CHOOSE i \in bad : \A j \in bad : i <= j

\* the result of the Error branch: name, message, stack, then the spread of
\* rest, the sanitized other own properties
ErrorResult(obj, rest) ==
    IF IsThrow(rest) THEN rest
    ELSE Obj(SpreadValue(
            << Entry("name", Str(obj.name)),
               Entry("message", Str(sanitizeString(obj.message))),
               Entry("stack", IF NODE_ENV = "development"
                              THEN Str(sanitizeString(obj.stack)) ELSE Undefined) >>,
            rest))

\* the result of obj.map(...) given each item's outcome: the first throw
\* leaves the map
ArrayResult(mapped) ==
    LET thrown == {i \in 1..Len(mapped) : IsThrow(mapped[i])}
    IN  IF thrown = {} THEN Arr(mapped)
        ELSE mapped[CHOOSE i \in thrown : \A j \in thrown : i <= j]

\* the result of the plain-object branch given each entry's outcome:
\* Object.entries runs the getters, function values are skipped, and an
\* entry whose sanitizing threw holds the circular-reference sentinel
ObjectResult(entries, outcomes) ==
    LET kept == SelectSeq([i \in 1..Len(entries) |-> i],
                          LAMBDA i : Deref(entries[i].v).t # "function")
        g == FirstThrowingGetter(entries)
    IN  IF g > 0 THEN Throw(entries[g].v.thrown)
        ELSE Obj(<<>> \o [n \in 1..Len(kept) |->
                    Entry(entries[kept[n]].k,
                          IF IsThrow(outcomes[kept[n]]) THEN Str(CIRCULAR_REFERENCE)
                          ELSE outcomes[kept[n]])])

RECURSIVE sanitizeObject(_, _)
sanitizeObject(ref, maxDepth) ==
    IF maxDepth <= 0 THEN Str(MAX_DEPTH_REACHED)
    ELSE CASE Deref(ref).t \in {"null", "undefined"} -> Deref(ref)
      [] Deref(ref).t = "string" -> Str(sanitizeString(Deref(ref).s))
      [] Deref(ref).t \in {"number", "boolean"} -> Deref(ref)
      [] Deref(ref).t = "error" ->
            ErrorResult(Deref(ref), sanitizeObject(Obj(Deref(ref).props), maxDepth - 1))
      [] Deref(ref).t = "date" ->
            IF Deref(ref).valid THEN Str(Deref(ref).iso)
            ELSE Throw(ErrorV(RangeErrorName, InvalidTimeValue, <<>>, <<>>))
      [] Deref(ref).t = "array" ->
            ArrayResult(<<>> \o [i \in 1..Len(Deref(ref).items) |->
                                    sanitizeObject(Deref(ref).items[i], maxDepth - 1)])
      [] Deref(ref).t = "object" ->
            ObjectResult(Deref(ref).entries,
                         <<>> \o [i \in 1..Len(Deref(ref).entries) |->
                                    sanitizeObject(Deref(ref).entries[i].v, maxDepth - 1)])
      [] Deref(ref).t = "bareobject" -> Obj(<<>>)
      [] OTHER -> Deref(ref)

\* String(error) of the catch block: a primitive converts, an object without
\* toString and valueOf throws a TypeError
StringOf(error) ==
    CASE error.t = "string" -> Str(error.s)
      [] error.t = "undefined" -> Str(StrOf("undefined"))
      [] error.t = "bareobject" -> Throw(ErrorV(TypeErrorName, CannotConvert, <<>>, <<>>))

SanitizationError(data, message) ==
    Obj(<< Entry("_sanitization_error", Bool(TRUE)),
           Entry("_original_type", Str(StrOf(TypeOf(data)))),
           Entry("_error", message) >>)

\* the catch block of sanitizeLogData, for the thrown value error
SanitizationFailure(data, error) ==
    IF error.t = "error" THEN SanitizationError(data, Str(error.message))
    ELSE IF IsThrow(StringOf(error)) THEN StringOf(error)
    ELSE SanitizationError(data, StringOf(error))

\* the try block of sanitizeLogData with the outcome r of sanitizeObject
Caught(data, r) == IF IsThrow(r) THEN SanitizationFailure(data, r.error) ELSE r

sanitizeLogData(data) == Caught(data, sanitizeObject(data, DefaultMaxDepth))

\* args.map((arg) => sanitizeLogData(arg)): an array, or the first throw
sanitizeLogArgs(args) ==
    ArrayResult(<<>> \o [i \in 1..Len(args) |-> sanitizeLogData(args[i])])

\* whether sanitizeObject(ref, maxDepth) calls sanitizeString at least once
RECURSIVE CallsSanitizeString(_, _)
CallsSanitizeString(ref, maxDepth) ==
    LET obj == Deref(ref)
    IN  IF maxDepth <= 0 THEN FALSE
        ELSE CASE obj.t \in {"string", "error"} -> TRUE
          [] obj.t = "array" ->
                \E i \in 1..Len(obj.items) :
                    /\ CallsSanitizeString(obj.items[i], maxDepth - 1)
                    /\ \A j \in 1..(i - 1) : ~IsThrow(sanitizeObject(obj.items[j], maxDepth - 1))
          [] obj.t = "object" ->
                /\ FirstThrowingGetter(obj.entries) = 0
                /\ \E i \in 1..Len(obj.entries) :
                      /\ Deref(obj.entries[i].v).t # "function"
                      /\ CallsSanitizeString(obj.entries[i].v, maxDepth - 1)
          [] OTHER -> FALSE

ZeroIndex == [k \in 1..NPatterns |-> 0]

\* lastIndex after sanitizeLogData was called on each of datas, from li:
\* every replace with a global pattern leaves its lastIndex at 0
LastIndexAfter(datas, li) ==
    IF \E i \in 1..Len(datas) : CallsSanitizeString(datas[i], DefaultMaxDepth)
    THEN ZeroIndex ELSE li

\* the outcome of SENSITIVE_PATTERNS.some(...) given the patterns that would
\* hit: some stops at the first hit, so the patterns after it are not run
SomeOutcome(input, li, hits) ==
    [result |-> hits # {},
     lastIndex |-> [k \in 1..NPatterns |->
                      IF \A h \in hits : k <= h THEN RegExpTest(k, input, li[k]).lastIndex
                      ELSE li[k]]]

\* SENSITIVE_PATTERNS.some(({ pattern }) => pattern.test(input)), with the
\* patterns' lastIndex li
containsSensitiveData(input, li) ==
    SomeOutcome(input, li, {k \in 1..NPatterns : RegExpTest(k, input, li[k]).found})

\* .map(({ description }) => description)
Descriptions(hits) == [n \in 1..Len(hits) |-> description(hits[n])]

\* SENSITIVE_PATTERNS.filter(({ pattern }) => pattern.test(input)).map(description):
\* filter runs every pattern
detectSensitivePatterns(input, li) ==
    [result |-> Descriptions(SelectSeq([k \in 1..NPatterns |-> k],
                                       LAMBDA k : RegExpTest(k, input, li[k]).found)),
     lastIndex |-> [k \in 1..NPatterns |-> RegExpTest(k, input, li[k]).lastIndex]]

-----------------------------------------------------------------------------
(* The texts and values the utilities and the loggers are called with.     *)

BearerText == <<"A","u","t","h","o","r","i","z","a","t","i","o","n",":"," ","B","e","a","r","e","r"," ","a","b","c","1","2","3">>
PlainText == <<"h","e","l","l","o"," ","w","o","r","l","d">>
ApiKeyText == <<"a","p","i","_","k","e","y","=","s","k","-">> \o Rep("a", 25)
PasswordText == <<"p","a","s","s","w","o","r","d","=","\"","h","u","n","t","e","r","2","\"">>
JwtText == <<"e","y","J","h","b","G","c","i",".","e","y","J","z","d","W","I","i",".","s","i","g">>
ConnText == <<"p","o","s","t","g","r","e","s","q","l",":","/","/","u","s","e","r",":","p","a","s","s","@","h","o","s","t","/","d","b">>
TwoBearerText == <<"B","e","a","r","e","r"," ","a","b","c"," ","B","e","a","r","e","r"," ","d","e","f">>
SecretName == <<"B","e","a","r","e","r"," ","a","b","c","1","2","3">>
ErrorName == <<"E","r","r","o","r">>
BoomText == <<"b","o","o","m">>
IsoText == <<"2","0","2","4","-","0","1","-","0","1","T","0","0",":","0","0",":","0","0",".","0","0","0","Z">>

Texts == {BearerText, PlainText, ApiKeyText, PasswordText, JwtText, ConnText, TwoBearerText}

\* the texts containsSensitiveData and detectSensitivePatterns are called with
TestTexts == {BearerText, PlainText, ApiKeyText}

PlainError == ErrorV(ErrorName, BearerText, BoomText, <<>>)
NamedError == ErrorV(SecretName, BoomText, BoomText, <<>>)
CodedError == ErrorV(ErrorName, BoomText, BoomText, <<Entry("cause", Arr(<<Str(BearerText)>>))>>)

\* values without functions
PlainLeaves ==
    {Str(t) : t \in Texts}
        \cup {Num(1), Null, Undefined, BareObject,
              DateV(TRUE, IsoText), DateV(FALSE, <<>>),
              PlainError, NamedError, CodedError}

\* v wrapped n times in an array, or in an object under the key k
RECURSIVE Nest(_, _, _)
Nest(kind, n, v) ==
    IF n = 0 THEN v
    ELSE IF kind = "array" THEN Arr(<<Nest(kind, n - 1, v)>>)
    ELSE Obj(<<Entry("k", Nest(kind, n - 1, v))>>)

NestedLeaves == {Str(BearerText), PlainError}

\* nesting depths around the depth budget of sanitizeObject
NestDepths == {DefaultMaxDepth - 1, DefaultMaxDepth}

CyclicValues == {Ref(1), Ref(2), Ref(4)}

FunctionFreeValues ==
    PlainLeaves \cup CyclicValues
        \cup {Nest(kind, n, v) : kind \in {"array", "object"}, n \in NestDepths, v \in NestedLeaves}
        \cup {Obj(<<Entry("a", Str(PasswordText)), Entry("b", Arr(<<Num(1), Str(JwtText)>>))>>)}

Thrown == {ErrorV(ErrorName, BoomText, <<>>, <<>>), Str(BoomText), BareObject}

\* values with function-valued properties or getters
FunctionValues ==
    {Fn, Obj(<<Entry("f", Fn), Entry("s", Str(BearerText))>>)}
        \cup {Obj(<<Entry("a", Num(1)), Entry("g", ThrowingGetter(e))>>) : e \in Thrown}
        \cup {Arr(<<Obj(<<Entry("g", ThrowingGetter(Str(BoomText)))>>), Str(BearerText)>>),
              Obj(<<Entry("in", Obj(<<Entry("g", ThrowingGetter(BareObject))>>)),
                    Entry("s", Str(ConnText))>>)}

Values == FunctionFreeValues \cup FunctionValues

ArgLists == {<<>>, <<Num(1), Str(BearerText)>>,
             <<DateV(FALSE, <<>>), Str(ApiKeyText)>>,
             <<Obj(<<Entry("g", ThrowingGetter(BareObject))>>), Num(1)>>}

-----------------------------------------------------------------------------
(* The sanitizer utilities as operations on the process.                   *)

NoCall == [fn |-> "none"]

LoggerVars == <<calls, loggers, stdout, stderr, stream, listeners>>
ProcessVars == <<NODE_ENV, isServerSide>>

ContainsSensitiveData(input) ==
    LET r == containsSensitiveData(input, lastIndex)
    IN  /\ lastIndex' = r.lastIndex
        /\ lastCall' = [fn |-> "containsSensitiveData", input |-> input, result |-> r.result]
        /\ UNCHANGED <<LoggerVars, ProcessVars>>

DetectSensitivePatterns(input) ==
    LET r == detectSensitivePatterns(input, lastIndex)
    IN  /\ lastIndex' = r.lastIndex
        /\ lastCall' = [fn |-> "detectSensitivePatterns", input |-> input, result |-> r.result]
        /\ UNCHANGED <<LoggerVars, ProcessVars>>

\* sanitizeLogData(data); origin is the value data was sanitized from, when
\* data is itself the result of the previous call, and before is the
\* lastIndex of the patterns when the call was made
SanitizeLogData(data, origin, again) ==
    /\ lastIndex' = LastIndexAfter(<<data>>, lastIndex)
    /\ lastCall' = [fn |-> "sanitizeLogData", input |-> data, result |-> sanitizeLogData(data),
                    origin |-> origin, again |-> again, before |-> lastIndex]
    /\ UNCHANGED <<LoggerVars, ProcessVars>>

\* sanitizeLogData on the value the previous sanitizeLogData returned
SanitizeAgain ==
    /\ lastCall.fn = "sanitizeLogData"
    /\ ~lastCall.again
    /\ ~IsThrow(lastCall.result)
    /\ SanitizeLogData(lastCall.result, lastCall.input, TRUE)

SanitizeLogArgs(args) ==
    /\ lastIndex' = LastIndexAfter(args, lastIndex)
    /\ lastCall' = [fn |-> "sanitizeLogArgs", input |-> args, result |-> sanitizeLogArgs(args)]
    /\ UNCHANGED <<LoggerVars, ProcessVars>>

SanitizerNext ==
    \/ \E input \in TestTexts : ContainsSensitiveData(input)
    \/ \E input \in TestTexts : DetectSensitivePatterns(input)
    \/ \E data \in Values : SanitizeLogData(data, data, FALSE)
    \/ SanitizeAgain
    \/ \E args \in ArgLists : SanitizeLogArgs(args)

-----------------------------------------------------------------------------
(* The console Logger (lib/logs/console/logger).                           *)

LOG_CONFIG ==
    [development |-> [enabled |-> TRUE, minLevel |-> "DEBUG", colorize |-> TRUE, useStructured |-> FALSE],
     production |-> [enabled |-> TRUE, minLevel |-> "INFO", colorize |-> FALSE, useStructured |-> TRUE],
     test |-> [enabled |-> FALSE, minLevel |-> "ERROR", colorize |-> FALSE, useStructured |-> FALSE]]

Environments == {"development", "production", "test"}

\* const ENV = (env.NODE_ENV || 'development')
ENV == NODE_ENV

\* const config = LOG_CONFIG[ENV] || LOG_CONFIG.development
config == IF ENV \in DOMAIN LOG_CONFIG THEN LOG_CONFIG[ENV] ELSE LOG_CONFIG.development

\* shouldLogInEnvironment without the client/server gate of production
shouldLogWithoutClientGate == config.enabled

shouldLogInEnvironment ==
    IF ENV = "production" THEN isServerSide ELSE config.enabled

\* const levels = [LogLevel.DEBUG, LogLevel.INFO, LogLevel.WARN, LogLevel.ERROR]
levels == <<"DEBUG", "INFO", "WARN", "ERROR">>
indexOf(seq, x) == IF \E i \in 1..Len(seq) : seq[i] = x
                   THEN (CHOOSE i \in 1..Len(seq) : seq[i] = x) - 1 ELSE -1

shouldLog(level) ==
    IF ~shouldLogInEnvironment THEN FALSE
    ELSE indexOf(levels, level) >= indexOf(levels, config.minLevel)

\* whether JSON.stringify(v) throws: a circular structure (every object of
\* Heap lies on a cycle), or a getter that throws
RECURSIVE StringifyThrows(_)
StringifyThrows(v) ==
    CASE v.t \in {"ref", "getter"} -> TRUE
      [] v.t = "array" -> \E i \in 1..Len(v.items) : StringifyThrows(v.items[i])
      [] v.t = "object" -> \E i \in 1..Len(v.entries) : StringifyThrows(v.entries[i].v)
      [] v.t = "error" -> \E i \in 1..Len(v.props) : StringifyThrows(v.props[i].v)
      [] OTHER -> FALSE

CircularOrNonSerializable == <<"[","C","i","r","c","u","l","a","r"," ","o","r"," ","N","o","n","-","S","e","r","i","a","l","i","z","a","b","l","e"," ","O","b","j","e","c","t","]">>

\* the text JSON.stringify(value, null, indent) gives, kept as the value it
\* writes and the indentation
JsonText(value, indent) == [t |-> "string", json |-> value, indent |-> indent]

formatObject(obj) ==
    LET indent == IF ENV = "development" THEN 2 ELSE 0
    IN  IF StringifyThrows(obj) THEN Str(CircularOrNonSerializable)
        ELSE IF obj.t = "error"
        THEN JsonText(Obj(SpreadEntries(
                 << Entry("message", Str(obj.message)),
                    Entry("stack", IF ENV = "development" THEN Str(obj.stack) ELSE Undefined) >>,
                 obj.props)), indent)
        ELSE JsonText(obj, indent)

formatArgs(args) ==
    [i \in 1..Len(args) |->
        IF args[i].t \in {"null", "undefined"} THEN args[i]
        ELSE IF TypeOf(args[i]) = "object" THEN formatObject(args[i])
        ELSE args[i]]

-----------------------------------------------------------------------------
(* The StructuredLogger (lib/logs/structured/logger).                      *)

\* enum LogLevel, and pino's 'silent' above every level
LevelValue(level) ==
    CASE level = "trace" -> 10
      [] level = "debug" -> 20
      [] level = "info" -> 30
      [] level = "warn" -> 40
      [] level = "error" -> 50
      [] level = "fatal" -> 60
      [] level = "silent" -> 1000

PinoLevels == {"trace", "debug", "info", "warn", "error", "fatal"}

\* getLoggerConfig without the 'silent' level of the test environment
getLoggerConfigNeverSilent ==
    [level |-> IF NODE_ENV = "development" THEN "debug" ELSE "info"]

\* level: isTest ? 'silent' : isDevelopment ? 'debug' : 'info'
getLoggerConfig ==
    [level |-> IF NODE_ENV = "test" THEN "silent"
               ELSE IF NODE_ENV = "development" THEN "debug" ELSE "info"]

\* pino(options): a logger with no bindings
pino(options) == [level |-> options.level, bindings |-> <<>>]

\* pino.child(bindings): the parent's level, the bindings added
pinoChild(parent, bindings) ==
    [level |-> parent.level, bindings |-> SpreadValue(parent.bindings, bindings)]

\* whether the pino logger p writes a record logged at level
pinoWrites(p, level) == LevelValue(level) >= LevelValue(p.level)

\* new StructuredLogger(module, defaultContext): initialContext keeps the
\* default context the instance was constructed with
StructuredLogger(module, defaultContext, p) ==
    [cls |-> "StructuredLogger", module |-> module,
     defaultContext |-> SpreadEntries(<<Entry("module", Str(module))>>, defaultContext),
     initialContext |-> SpreadEntries(<<Entry("module", Str(module))>>, defaultContext),
     pino |-> p]

\* new Logger(module): structuredLogger is its StructuredLogger, or Null
Logger(module, structuredLogger) ==
    [cls |-> "Logger", module |-> module, structuredLogger |-> structuredLogger]

\* process.on(...) of a constructor that registers its handlers only when
\* the process has none yet
registerShutdownOnce(ls) == [e \in DOMAIN ls |-> IF ls[e] = 0 THEN 1 ELSE ls[e]]

\* process.on('exit' | 'SIGINT' | 'SIGTERM', ...) of the constructor.  The
\* guard typeof process !== 'undefined' holds whenever it is reached:
\* getLoggerConfig, called on the line before, has read process.pid
registerShutdown(ls) == [e \in DOMAIN ls |-> ls[e] + 1]

\* context ? sanitizeLogData({ ...this.defaultContext, ...context })
\*         : this.defaultContext
SanitizedContext(l, context) ==
    IF context.t = "undefined" THEN Obj(l.defaultContext)
    ELSE sanitizeLogData(Obj(SpreadEntries(l.defaultContext, context.entries)))

\* args.length > 0 ? sanitizeLogArgs(args) : []
SanitizedArgs(args) == IF Len(args) > 0 THEN sanitizeLogArgs(args) ELSE Arr(<<>>)

\* if (sanitizedArgs.length > 0) sanitizedContext.additionalData = sanitizedArgs
WithAdditionalData(sanitizedContext, sanitizedArgs) ==
    IF Len(sanitizedArgs.items) > 0
    THEN Obj(SetEntry(sanitizedContext.entries, "additionalData", sanitizedArgs))
    ELSE sanitizedContext

\* return { msg: message, ...sanitizedContext }; without a call context
\* sanitizedContext is this.defaultContext itself, so the assignment of
\* additionalData is an assignment to the default context of l
FormattedLogData(l, message, context, sanitizedContext) ==
    [logData |-> SpreadValue(<<Entry("msg", Str(message))>>, sanitizedContext),
     defaultContext |-> IF context.t = "undefined" THEN sanitizedContext.entries
                        ELSE l.defaultContext]

\* formatLogData(message, context, ...args) on the logger l: the log data,
\* and the default context of l afterwards
formatLogData(l, message, context, args) ==
    FormattedLogData(l, message, context,
        WithAdditionalData(SanitizedContext(l, context), SanitizedArgs(args)))

-----------------------------------------------------------------------------
(* What the loggers are constructed and called with.                       *)

ModuleX == <<"X">>
U1 == <<"u","1">>
OpText == <<"o","p">>
OperationCompleted == <<"O","p","e","r","a","t","i","o","n"," ","c","o","m","p","l","e","t","e","d",":"," ">>

\* the context and the extra arguments of a call on a StructuredLogger
CallInputs == {[context |-> Undefined, args |-> <<Str(SecretName)>>],
               [context |-> Obj(<<Entry("token", Str(SecretName))>>), args |-> <<>>]}
\* the levels logged at directly; warn and error are logged at through a
\* Logger, fatal through logWithLevel
DirectLevels == {"trace", "debug", "info"}
\* the level argument of logWithLevel: a level of the enum, or any other string
LevelInputs == {"fatal", "verbose"}
\* the extra arguments of a call on a Logger
LogArgLists == {<<Str(SecretName)>>}
ChildContexts == {Obj(<<Entry("userId", Str(U1))>>)}
\* the duration and the memory delta a stop function measures
Metrics == Obj(<<Entry("duration", Num(1)), Entry("memoryMB", Num(0))>>)

StructuredIds == {i \in 1..Len(loggers) : loggers[i].cls = "StructuredLogger"}
FacadeIds == {i \in 1..Len(loggers) : loggers[i].cls = "Logger"}

\* the StructuredLogger behind loggers[j]: the instance itself, or the one
\* the Logger holds
structuredOf(j) ==
    IF loggers[j].cls = "Logger" THEN loggers[j].structuredLogger ELSE loggers[j]

-----------------------------------------------------------------------------
(* The operations on loggers.                                              *)

SanitizerVars == <<lastIndex, lastCall>>

Init ==
    /\ lastIndex = ZeroIndex
    /\ lastCall = NoCall
    /\ calls = 0
    /\ NODE_ENV \in Environments
    /\ isServerSide \in BOOLEAN
    /\ loggers = <<>>
    \* export const logger = createStructuredLogger('sim-app'): the default
    \* instance registers its shutdown handlers when the module is loaded
    /\ listeners = registerShutdown([exit |-> 0, SIGINT |-> 0, SIGTERM |-> 0])
    /\ stdout = <<>>
    /\ stderr = <<>>
    /\ stream = <<>>

\* createStructuredLogger(module, defaultContext)
CreateStructuredLogger(module, defaultContext) ==
    /\ Len(loggers) < MaxLoggers
    /\ loggers' = Append(loggers, StructuredLogger(module, defaultContext, pino(getLoggerConfig)))
    /\ listeners' = registerShutdown(listeners)
    /\ UNCHANGED <<SanitizerVars, ProcessVars, calls, stdout, stderr, stream>>

\* createLogger(module) attaching the structured backend wherever the
\* configuration has useStructured, on the client side too
CreateLoggerIgnoringSide(module) ==
    /\ Len(loggers) < MaxLoggers
    /\ IF config.useStructured
       THEN /\ loggers' = Append(loggers,
                              Logger(module, StructuredLogger(module, <<>>, pino(getLoggerConfig))))
            /\ listeners' = registerShutdown(listeners)
       ELSE /\ loggers' = Append(loggers, Logger(module, Null))
            /\ UNCHANGED listeners
    /\ UNCHANGED <<SanitizerVars, ProcessVars, calls, stdout, stderr, stream>>

\* createLogger(module)
CreateLogger(module) ==
    /\ Len(loggers) < MaxLoggers
    /\ IF isServerSide /\ config.useStructured
       THEN /\ loggers' = Append(loggers,
                              Logger(module, StructuredLogger(module, <<>>, pino(getLoggerConfig))))
            /\ listeners' = registerShutdown(listeners)
       ELSE /\ loggers' = Append(loggers, Logger(module, Null))
            /\ UNCHANGED listeners
    /\ UNCHANGED <<SanitizerVars, ProcessVars, calls, stdout, stderr, stream>>

\* child(context) merging the context into the parent's own default context
\* object and handing that object to the child
ChildSharingContext(i, context) ==
    /\ Len(loggers) < MaxLoggers
    /\ loggers' = Append([loggers EXCEPT ![i].defaultContext =
                                SpreadEntries(loggers[i].defaultContext, context.entries)],
                         StructuredLogger(loggers[i].module,
                             SpreadEntries(loggers[i].defaultContext, context.entries),
                             pinoChild(loggers[i].pino, sanitizeLogData(context))))
    /\ listeners' = registerShutdown(listeners)
    /\ lastIndex' = LastIndexAfter(<<context>>, lastIndex)
    /\ UNCHANGED <<lastCall, ProcessVars, calls, stdout, stderr, stream>>

\* loggers[i].child(context)
Child(i, context) ==
    /\ Len(loggers) < MaxLoggers
    /\ loggers' = Append(loggers,
                         StructuredLogger(loggers[i].module,
                             SpreadEntries(loggers[i].defaultContext, context.entries),
                             pinoChild(loggers[i].pino, sanitizeLogData(context))))
    /\ listeners' = registerShutdown(listeners)
    /\ lastIndex' = LastIndexAfter(<<context>>, lastIndex)
    /\ UNCHANGED <<lastCall, ProcessVars, calls, stdout, stderr, stream>>

\* this.pino.<level>(logData) with the outcome f of formatLogData: a record
\* on the stream when the level passes; context and args are kept with the
\* record
PinoLog(j, level, context, args, f) ==
    /\ loggers' = IF loggers[j].cls = "Logger"
                  THEN [loggers EXCEPT ![j].structuredLogger.defaultContext = f.defaultContext]
                  ELSE [loggers EXCEPT ![j].defaultContext = f.defaultContext]
    /\ stream' = IF pinoWrites(structuredOf(j).pino, level)
                 THEN Append(stream, [logger |-> j, level |-> level,
                                      bindings |-> structuredOf(j).pino.bindings,
                                      data |-> f.logData, context |-> context, args |-> args])
                 ELSE stream
    /\ lastIndex' = LastIndexAfter(
            (IF context.t = "undefined" THEN <<>>
             ELSE <<Obj(SpreadEntries(structuredOf(j).defaultContext, context.entries))>>) \o args,
            lastIndex)

\* the effect of <level>(message, context, ...args) on the StructuredLogger
\* behind loggers[j]: formatLogData, then this.pino.<level>(logData)
StructuredEmit(j, level, message, context, args) ==
    PinoLog(j, level, context, args, formatLogData(structuredOf(j), message, context, args))

\* trace, debug, info, warn, error, fatal of a StructuredLogger
StructuredCall(j, level, message, context, args) ==
    /\ calls < MaxCalls
    /\ calls' = calls + 1
    /\ StructuredEmit(j, level, message, context, args)
    /\ UNCHANGED <<lastCall, ProcessVars, stdout, stderr, listeners>>

\* logWithLevel(level, message, context, ...args): the switch falls to info
\* for a level outside the enum
LogWithLevel(j, level, message, context, args) ==
    StructuredCall(j, IF level \in PinoLevels THEN level ELSE "info", message, context, args)

\* Logger.log(level, message, ...args)
ConsoleLog(i, level, message, args) ==
    IF ~shouldLog(level) THEN UNCHANGED <<stdout, stderr>>
    ELSE IF level = "ERROR"
    THEN /\ stderr' = Append(stderr, [logger |-> i, level |-> level, module |-> loggers[i].module,
                                      colorize |-> config.colorize, message |-> message,
                                      formattedArgs |-> formatArgs(args), args |-> args])
         /\ UNCHANGED stdout
    ELSE /\ stdout' = Append(stdout, [logger |-> i, level |-> level, module |-> loggers[i].module,
                                      colorize |-> config.colorize, message |-> message,
                                      formattedArgs |-> formatArgs(args), args |-> args])
         /\ UNCHANGED stderr

lowerLevel(level) ==
    CASE level = "DEBUG" -> "debug"
      [] level = "INFO" -> "info"
      [] level = "WARN" -> "warn"
      [] level = "ERROR" -> "error"

\* debug, info, warn, error of a Logger
LoggerCall(i, level, message, args) ==
    /\ calls < MaxCalls
    /\ calls' = calls + 1
    /\ IF loggers[i].structuredLogger # Null
       THEN /\ StructuredEmit(i, lowerLevel(level), message, Obj(<<>>), args)
            /\ UNCHANGED <<stdout, stderr>>
       ELSE /\ ConsoleLog(i, level, message, args)
            /\ UNCHANGED <<loggers, stream, lastIndex>>
    /\ UNCHANGED <<lastCall, ProcessVars, listeners>>

\* the stop function that startTimer(operation, context) returned, called:
\* one info call with the context, the operation and the metrics measured.
\* startTimer itself changes nothing, and the stop function keeps nothing
\* between its calls
StopTimer(j, operation, context, metrics) ==
    StructuredCall(j, "info", OperationCompleted \o operation,
        Obj(SpreadEntries(SpreadValue(<<>>, context),
                <<Entry("operation", Str(operation)), Entry("performance", metrics)>>)),
        <<>>)

LoggerNext ==
    \/ CreateStructuredLogger(ModuleX, <<>>)
    \/ CreateLogger(ModuleX)
    \/ \E i \in StructuredIds, context \in ChildContexts : Child(i, context)
    \/ \E j \in StructuredIds, level \in DirectLevels, c \in CallInputs :
            StructuredCall(j, level, PlainText, c.context, c.args)
    \/ \E j \in StructuredIds, level \in LevelInputs, c \in CallInputs :
            LogWithLevel(j, level, PlainText, c.context, c.args)
    \/ \E i \in FacadeIds, level \in {"DEBUG", "INFO", "WARN", "ERROR"}, args \in LogArgLists :
            LoggerCall(i, level, PlainText, args)
    \/ \E j \in StructuredIds : StopTimer(j, OpText, Undefined, Metrics)

Next == SanitizerNext \/ LoggerNext

\* the whole process
Spec == Init /\ [][Next]_vars
\* the sanitizer utilities alone, which never read isServerSide
SanitizerInit == Init /\ isServerSide
SanitizerSpec == SanitizerInit /\ [][SanitizerNext]_vars
\* the loggers alone
LoggerSpec == Init /\ [][LoggerNext]_vars

-----------------------------------------------------------------------------
(* The claims.                                                             *)

\* the value of the key k in the entries of an object, undefined without it
EntryOf(entries, k) ==
    IF \E i \in 1..Len(entries) : entries[i].k = k
    THEN entries[CHOOSE i \in 1..Len(entries) : entries[i].k = k].v
    ELSE Undefined

\* the arguments console.log or console.error was given in the call line are
\* the formatted sanitized arguments of the logger call
SanitizedLine(line) ==
    line.formattedArgs = formatArgs(sanitizeLogArgs(line.args).items)

\* C1: for every logger created by createLogger, whatever reaches
\* console.log, console.error or the structured backend was first passed
\* through sanitizeLogData / sanitizeLogArgs: the console arguments are the
\* sanitized arguments, and a record's additionalData is the sanitized
\* arguments.
C1_OutputSanitized ==
    /\ \A n \in 1..Len(stdout) : SanitizedLine(stdout[n])
    /\ \A n \in 1..Len(stderr) : SanitizedLine(stderr[n])
    /\ \A n \in 1..Len(stream) :
          loggers[stream[n].logger].cls = "Logger" =>
              EntryOf(stream[n].data, "additionalData") = sanitizeLogArgs(stream[n].args)

\* a Logger with the console backend wrote a line
C1_ConsoleLine == Len(stdout) + Len(stderr) > 0

\* whether some rule's matcher finds a hit in the text
AnyRuleHits(text) == \E k \in 1..NPatterns : FindFrom(k, text, 1) > 0

\* C2: after any sequence of earlier calls to the sanitizer utilities,
\* containsSensitiveData(text) returns true exactly when at least one rule's
\* matcher finds a hit in text.
C2_ContainsIsQuery ==
    lastCall.fn = "containsSensitiveData" => lastCall.result = AnyRuleHits(lastCall.input)

\* the labels of the rules whose matcher hits the text, in rule-list order
HitLabels(text) ==
    Descriptions(SelectSeq([k \in 1..NPatterns |-> k], LAMBDA k : FindFrom(k, text, 1) > 0))

\* C3: after any sequence of earlier calls to the sanitizer utilities,
\* detectSensitivePatterns(text) returns the labels of exactly the rules
\* whose matcher hits text, in rule-list order.
C3_DetectGivesHitLabels ==
    lastCall.fn = "detectSensitivePatterns" => lastCall.result = HitLabels(lastCall.input)

\* C4: for every value v that contains no functions,
\* sanitizeLogData(sanitizeLogData(v)) equals sanitizeLogData(v).
C4_Idempotent ==
    (lastCall.fn = "sanitizeLogData" /\ lastCall.again /\ lastCall.origin \in FunctionFreeValues)
        => lastCall.result = lastCall.input

\* the diagnostic object of a failed sanitization of data, whatever its message
IsDiagnostic(result, data) ==
    /\ result.t = "object"
    /\ EntryOf(result.entries, "_sanitization_error") = Bool(TRUE)
    /\ EntryOf(result.entries, "_original_type") = Str(StrOf(TypeOf(data)))
    /\ EntryOf(result.entries, "_error").t = "string"

\* C5: sanitizeLogData never raises to its caller: when the walk throws
\* outside a per-entry guard the call returns the diagnostic object; and
\* sanitizeLogArgs returns a sequence of the same length whose failed
\* elements are diagnostic objects.
C5_NeverRaises ==
    /\ lastCall.fn = "sanitizeLogData" =>
          /\ ~IsThrow(lastCall.result)
          /\ IsThrow(sanitizeObject(lastCall.input, DefaultMaxDepth))
                => IsDiagnostic(lastCall.result, lastCall.input)
    /\ lastCall.fn = "sanitizeLogArgs" =>
          /\ ~IsThrow(lastCall.result)
          /\ Len(lastCall.result.items) = Len(lastCall.input)
          /\ \A i \in 1..Len(lastCall.input) :
                IsThrow(sanitizeObject(lastCall.input[i], DefaultMaxDepth))
                    => IsDiagnostic(lastCall.result.items[i], lastCall.input[i])

\* the structure C6 describes for the value v reached through the objects
\* ancestors: an entry whose value points back to an ancestor holds the
\* sentinel, the other entries are sanitized
RECURSIVE CutCycles(_, _)
CutCycles(v, ancestors) ==
    IF v.t = "ref" /\ v.id \in ancestors THEN Str(CIRCULAR_REFERENCE)
    ELSE CASE Deref(v).t = "string" -> Str(sanitizeString(Deref(v).s))
           [] Deref(v).t = "array" ->
                Arr([i \in 1..Len(Deref(v).items) |->
                        CutCycles(Deref(v).items[i],
                                  IF v.t = "ref" THEN ancestors \cup {v.id} ELSE ancestors)])
           [] Deref(v).t = "object" ->
                Obj([i \in 1..Len(Deref(v).entries) |->
                        Entry(Deref(v).entries[i].k,
                              CutCycles(Deref(v).entries[i].v,
                                        IF v.t = "ref" THEN ancestors \cup {v.id} ELSE ancestors))])
           [] OTHER -> Deref(v)

\* C6: for a self-referential object sanitizeLogData returns the structure
\* with '[CIRCULAR_REFERENCE]' at the cyclic edge and the other entries
\* sanitized.
C6_SentinelAtCyclicEdge ==
    (lastCall.fn = "sanitizeLogData" /\ lastCall.input \in CyclicValues)
        => lastCall.result = CutCycles(lastCall.input, {})

\* C7: after any sequence of calls on a StructuredLogger its default context
\* is exactly what it was at construction.
C7_DefaultContextKept ==
    \A i \in StructuredIds : loggers[i].defaultContext = loggers[i].initialContext

\* a call with extra arguments and no call context was made on a
\* StructuredLogger and written
C7_ArgsWithoutContext ==
    \E n \in 1..Len(stream) :
        /\ stream[n].logger \in StructuredIds
        /\ stream[n].context = Undefined
        /\ Len(stream[n].args) > 0

\* every record of the stream carries the module and the userId of the
\* default context its logger was constructed with, unless the context of
\* the call sets that key, and carries a userId only if that default
\* context or the context of the call has one
RecordsCarryOwnContext ==
    \A n \in 1..Len(stream) : \A key \in {"module", "userId"} :
        EntryOf(SpreadValue(<<>>, stream[n].context), key) = Undefined
            => EntryOf(stream[n].data, key)
                 = EntryOf(structuredOf(stream[n].logger).initialContext, key)

\* a step that is child(context) on loggers[i] adds one logger of the same
\* module whose default context is the parent's merged with the context,
\* and leaves every other logger as it was
ChildStep ==
    \A i \in StructuredIds, context \in ChildContexts :
        Child(i, context) =>
            /\ Len(loggers') = Len(loggers) + 1
            /\ loggers'[Len(loggers')].cls = "StructuredLogger"
            /\ loggers'[Len(loggers')].module = loggers[i].module
            /\ loggers'[Len(loggers')].defaultContext
                  = SpreadEntries(loggers[i].defaultContext, context.entries)
            /\ \A k \in 1..Len(loggers) : loggers'[k] = loggers[k]

C9_TestIsSilent ==
    NODE_ENV = "test" => (stdout = <<>> /\ stderr = <<>> /\ stream = <<>>)

\* in the test environment a logger was constructed and called
C9_CalledInTest == NODE_ENV = "test" /\ calls > 0 /\ Len(loggers) > 0

\* a step that is a debug, info, warn or error call on a Logger in
\* production writes nothing to the console; on the client side it writes
\* no record, on the server side none for debug and exactly one, of the
\* call's level, for info, warn and error
ProductionCallStep ==
    \A i \in FacadeIds, level \in {"DEBUG", "INFO", "WARN", "ERROR"}, args \in LogArgLists :
        (NODE_ENV = "production" /\ LoggerCall(i, level, PlainText, args)) =>
            /\ stdout' = stdout
            /\ stderr' = stderr
            /\ IF isServerSide /\ level # "DEBUG"
               THEN /\ Len(stream') = Len(stream) + 1
                    /\ SubSeq(stream', 1, Len(stream)) = stream
                    /\ stream'[Len(stream')].logger = i
                    /\ stream'[Len(stream')].level = lowerLevel(level)
               ELSE stream' = stream

\* C10: in production a client-side Logger produces no output at any level,
\* and a server-side Logger produces none for debug and exactly one record
\* for every info, warn and error call.
C10_ProductionGate == [][ProductionCallStep]_vars

\* in production on the server side a Logger wrote a record
C10_ServerRecord ==
    /\ NODE_ENV = "production"
    /\ isServerSide
    /\ \E n \in 1..Len(stream) : loggers[stream[n].logger].cls = "Logger"

\* every Logger has the structured backend exactly when the process is
\* server-side and the configuration has useStructured; what the console
\* was given came from Loggers with the console backend, and the records of
\* Loggers came from Loggers with the structured backend
BackendAsConfigured ==
    /\ \A i \in FacadeIds :
          (loggers[i].structuredLogger # Null) <=> (isServerSide /\ config.useStructured)
    /\ \A n \in 1..Len(stdout) : loggers[stdout[n].logger].structuredLogger = Null
    /\ \A n \in 1..Len(stderr) : loggers[stderr[n].logger].structuredLogger = Null
    /\ \A n \in 1..Len(stream) :
          stream[n].logger \in FacadeIds => loggers[stream[n].logger].structuredLogger # Null

\* no step changes the backend of a Logger, and a step that is a debug,
\* info, warn or error call on a Logger leaves the output of the other
\* backend as it was
BackendStep ==
    /\ \A i \in FacadeIds :
          /\ loggers'[i].cls = "Logger"
          /\ (loggers'[i].structuredLogger = Null) <=> (loggers[i].structuredLogger = Null)
    /\ \A i \in FacadeIds, level \in {"DEBUG", "INFO", "WARN", "ERROR"}, args \in LogArgLists :
          LoggerCall(i, level, PlainText, args) =>
              IF loggers[i].structuredLogger # Null
              THEN stdout' = stdout /\ stderr' = stderr
              ELSE stream' = stream

\* C11: the backend of a Logger is chosen once at construction, structured
\* exactly when server-side with useStructured and console otherwise, it
\* never changes, and every later call is routed to it and to no other.
C11_BackendFixed == []BackendAsConfigured /\ [][BackendStep]_vars

\* a Logger with the console backend was called and wrote to the console
C11_ConsoleBackendWrote ==
    /\ calls > 0
    /\ \E n \in 1..Len(stdout) :
          /\ loggers[stdout[n].logger].cls = "Logger"
          /\ loggers[stdout[n].logger].structuredLogger = Null

\* the key name, then the placeholder
KeyThenPlaceholder == <<"a","p","i","_","k","e","y","=">> \o REDACTED

\* the key name, the vendor prefix, then the placeholder
KeyPrefixThenPlaceholder == <<"a","p","i","_","k","e","y","=","s","k","-">> \o REDACTED

\* C12 as stated: the rules are applied in list order, each to the output of
\* the previous ones, and `api_key=` followed by a vendor-style key is
\* sanitized to `api_key=[REDACTED]`.
C12_WholeValueReplaced ==
    (lastCall.fn = "sanitizeLogData" /\ lastCall.input = Str(ApiKeyText))
        => lastCall.result = Str(KeyThenPlaceholder)

\* C12 as amended: a string is sanitized to what the six rules give when
\* each is applied, in list order, to the output of the previous ones, and
\* `api_key=` followed by a vendor-style key is sanitized to
\* `api_key=sk-[REDACTED]`: the vendor-key rule runs first and leaves
\* nothing for the generic rule to match.
C12_RulesInListOrder ==
    (lastCall.fn = "sanitizeLogData" /\ lastCall.input.t = "string") =>
        /\ lastCall.result =
              Str(StringReplace(StringReplace(StringReplace(StringReplace(StringReplace(
                  StringReplace(lastCall.input.s, 1), 2), 3), 4), 5), 6))
        /\ lastCall.input = Str(ApiKeyText) => lastCall.result = Str(KeyPrefixThenPlaceholder)

\* sanitizeLogData was called on `api_key=` followed by a vendor-style key
C12_ApiKeySanitized ==
    lastCall.fn = "sanitizeLogData" /\ lastCall.input = Str(ApiKeyText)

\* `Authorization: Bearer [REDACTED]`
BearerRedacted ==
    <<"A","u","t","h","o","r","i","z","a","t","i","o","n",":"," ","B","e","a","r","e","r"," ">>
        \o REDACTED

\* C13: whatever calls of containsSensitiveData, detectSensitivePatterns and
\* sanitizeLogData came before and wherever they left the lastIndex of the
\* patterns, sanitizeLogData returns what it returns in a fresh process: the
\* bearer token and the API key are redacted and the plain text is kept.
C13_HistoryIndependent ==
    lastCall.fn = "sanitizeLogData" =>
        /\ lastCall.result = sanitizeLogData(lastCall.input)
        /\ lastCall.input = Str(BearerText) => lastCall.result = Str(BearerRedacted)
        /\ lastCall.input = Str(ApiKeyText) => lastCall.result = Str(KeyPrefixThenPlaceholder)
        /\ lastCall.input = Str(PlainText) => lastCall.result = Str(PlainText)

\* sanitizeLogData was called on the text with the bearer token when an
\* earlier query had left the lastIndex of the bearer pattern after the token
C13_SanitizedAfterQuery ==
    /\ lastCall.fn = "sanitizeLogData"
    /\ lastCall.input = Str(BearerText)
    /\ lastCall.before[1] = Len(BearerText)

\* the StructuredLogger instances constructed so far: the default instance
\* of the module, the instances created directly or by child, and the
\* instances Loggers hold
InstancesConstructed ==
    1 + Cardinality(StructuredIds)
      + Cardinality({i \in FacadeIds : loggers[i].structuredLogger # Null})

\* C14: for each of 'exit', 'SIGINT' and 'SIGTERM' the number of listeners
\* registered on the process is the number of StructuredLogger instances
\* ever constructed, child instances included, and no step removes a
\* listener.
C14_ListenersAccumulate ==
    /\ [](\A e \in {"exit", "SIGINT", "SIGTERM"} : listeners[e] = InstancesConstructed)
    /\ [][\A e \in {"exit", "SIGINT", "SIGTERM"} : listeners'[e] >= listeners[e]]_vars

\* a StructuredLogger was created and a child of it, and the process has
\* three listeners for SIGTERM
C14_ChildRegistered ==
    /\ \E i \in StructuredIds, j \in StructuredIds :
          i < j /\ loggers[j].pino.bindings # <<>>
    /\ listeners["SIGTERM"] = 3

====
